---- MODULE Spec2Model ----
(***************************************************************************)
(* Verification model of HaroonNU2555/mlops-project.                       *)
(*                                                                         *)
(*   Spec          the inference service (src/api/app/main.py): the        *)
(*                 startup handler load_model, the /health and /predict    *)
(*                 handlers run by concurrent workers, the Prometheus      *)
(*                 counters and gauges.                                    *)
(*   DriftSpec     the drift computation of predict (main.py 94-107) as a  *)
(*                 function of (training_stats, request).                  *)
(*   PipelineSpec  the ETL stages validate_data and transform_data on a    *)
(*                 raw batch (src/airflow/dags/scripts).                   *)
(*                                                                         *)
(* Numbers: request values, means and standard deviations are integer      *)
(* valued floats; a quotient is kept exact as a record [num, den], a       *)
(* zero den being IEEE inf (num > 0) or NaN (num = 0), as numpy's float64  *)
(* division gives them.                                                    *)
(***************************************************************************)
EXTENDS Integers, Sequences, FiniteSets, TLC

VARIABLES
    \* ---- inference service (main.py) ----
    model,               \* global model: "None" or the loaded model
    training_stats,      \* global training_stats: feature -> [mean, std]
    load_pc,             \* position of the startup handler load_model
    load_error,          \* the exception load_model caught and printed
    PREDICTION_COUNT,    \* Counter predictions_total
    PREDICTION_ERRORS,   \* Counter prediction_errors_total
    OOD_RATIO,           \* Gauge out_of_distribution_ratio
    FEATURE_MEAN_SHIFT,  \* Gauge feature_mean_shift{feature_name}
    pc,                  \* worker -> position inside predict
    request,             \* worker -> the PredictionRequest being served
    features,            \* worker -> local DataFrame of predict
    response,            \* worker -> what the last predict call returned/raised
    health,              \* the last /health response
    served,              \* history: [ok, failed] predict calls completed
    \* ---- ETL pipeline (validate.py, transform.py) ----
    batch,               \* the latest raw CSV: [cols, rows]
    stage,               \* DAG position: validate_task >> transform_task
    validate_result,     \* outcome of validate_data
    df_clean             \* rows transform_data saved

svc_vars == <<model, training_stats, load_pc, load_error, PREDICTION_COUNT,
              PREDICTION_ERRORS, OOD_RATIO, FEATURE_MEAN_SHIFT, pc, request,
              features, response, health, served>>
etl_vars == <<batch, stage, validate_result, df_clean>>
vars == <<svc_vars, etl_vars>>

----------------------------------------------------------------------------
\* Bounds of the model.

\* predict calls started in one behaviour
MaxCalls == 3
\* health calls answered in one behaviour
MaxHealth == 1

Workers == {"w1", "w2"}

----------------------------------------------------------------------------
\* Exact quotients.

Abs(x) == IF x < 0 THEN -x ELSE x

\* a / b as numpy float64 division: never raises, b = 0 gives inf or NaN
Div(a, b) == [num |-> a, den |-> b]

\* abs() of a quotient
AbsQ(q) == [num |-> Abs(q.num), den |-> Abs(q.den)]

IsNaN(q) == q.den = 0 /\ q.num = 0
IsInf(q) == q.den = 0 /\ q.num # 0

\* q > k for an integer k; NaN compares False, +inf True, -inf False
GreaterThan(q, k) ==
    IF q.den = 0 THEN q.num > 0
    ELSE IF q.den > 0 THEN q.num > k * q.den
    ELSE q.num < k * q.den

\* q >= 0 as Python evaluates it (False for NaN)
NonNegative(q) ==
    IF q.den = 0 THEN q.num > 0
    ELSE IF q.den > 0 THEN q.num >= 0
    ELSE q.num <= 0

\* q1 = q2 as numbers (both finite)
EqualQ(q1, q2) ==
    /\ q1.den # 0 /\ q2.den # 0
    /\ q1.num * q2.den = q2.num * q1.den

----------------------------------------------------------------------------
\* The inference service: constants of main.py.

\* Threshold for OOD
OOD_THRESHOLD == 3

\* class PredictionRequest
RequestFields ==
    {"temp", "humidity", "pressure", "wind_speed", "clouds_all", "hour",
     "day_of_week", "month", "temp_lag_1", "temp_rolling_mean_3",
     "temp_rolling_std_3"}

\* training_stats = {} before load_model installs the profile
EmptyStats == [c \in {} |-> [mean |-> 0, std |-> 1]]

\* the profile load_model installs
ProductionStats ==
    [c \in {"temp", "humidity"} |->
        IF c = "temp" THEN [mean |-> 20, std |-> 5]
        ELSE [mean |-> 60, std |-> 15]]

\* Request values served: temp z = 3.2 (below the mean), 0, 3 (the boundary)
\* and humidity z = 0, 46/15; the other nine fields are carried unchanged.
TempValues == {4, 20, 35}
HumidityValues == {60, 106}

OtherValue(f) ==
    CASE f = "pressure" -> 1013
      [] f = "wind_speed" -> 5
      [] f = "clouds_all" -> 40
      [] f = "hour" -> 12
      [] f = "day_of_week" -> 0
      [] f = "month" -> 1
      [] f = "temp_rolling_std_3" -> 2
      [] OTHER -> 20

Requests ==
    {[f \in RequestFields |->
        IF f = "temp" THEN t ELSE IF f = "humidity" THEN h ELSE OtherValue(f)]
     : t \in TempValues, h \in HumidityValues}

NoRequest == [f \in {} |-> 0]
NoResponse == [status |-> 0, detail |-> ""]
NoHealth == [status |-> "", model_loaded |-> FALSE, calls |-> 0]
\* Gauge values before any set(): 0.0, and no labelled child
GaugeInit == [num |-> 0, den |-> 1]
NoShift == [c \in {} |-> GaugeInit]

----------------------------------------------------------------------------
\* Drift detection, predict lines 94-107, on the profile and one request.

\* for col, stats in training_stats.items(): if col in features.columns
Scored(stats, feats) == {col \in DOMAIN stats : col \in DOMAIN feats}

\* mutant of z_score: the abs() dropped
z_score_signed(val, st) == Div(val - st.mean, st.std)

\* z_score = abs((val - stats['mean']) / stats['std'])
z_score(val, st) == AbsQ(Div(val - st.mean, st.std))

\* if z_score > 3: ood_count += 1
IsOOD(val, st) == GreaterThan(z_score(val, st), OOD_THRESHOLD)

ood_count(stats, feats) ==
    Cardinality({col \in Scored(stats, feats) : IsOOD(feats[col], stats[col])})

\* FEATURE_MEAN_SHIFT.labels(feature_name=col).set(z_score)
ShiftAfter(stats, feats, shift) ==
    [col \in (DOMAIN shift) \cup Scored(stats, feats) |->
        IF col \in Scored(stats, feats)
        THEN z_score(feats[col], stats[col])
        ELSE shift[col]]

\* ood_count / len(training_stats)
ood_ratio(stats, feats) ==
    Div(ood_count(stats, feats), Cardinality(DOMAIN stats))

\* if len(training_stats) > 0: OOD_RATIO.set(...)
RatioAfter(stats, feats, ratio) ==
    IF Cardinality(DOMAIN stats) > 0 THEN ood_ratio(stats, feats) ELSE ratio

----------------------------------------------------------------------------
\* Startup: load_model runs as the "startup" event handler, which the ASGI
\* server completes before it accepts any request.

\* mutant of load_model_fetch: the failure is raised after model was bound
load_model_fetch_binds_then_fails ==
    /\ load_pc = "start"
    /\ model' = "Production"
    /\ \E ok \in BOOLEAN :
         IF ok
         THEN load_pc' = "loaded" /\ UNCHANGED load_error
         ELSE load_error' = "Error loading model" /\ load_pc' = "done"
    /\ UNCHANGED <<training_stats, PREDICTION_COUNT, PREDICTION_ERRORS,
                   OOD_RATIO, FEATURE_MEAN_SHIFT, pc, request, features,
                   response, health, served, etl_vars>>

\* mlflow.set_tracking_uri / mlflow.sklearn.load_model: succeeds and binds
\* model, or raises before model is bound.
load_model_fetch ==
    /\ load_pc = "start"
    /\ \E ok \in BOOLEAN :
         IF ok
         THEN /\ model' = "Production"
              /\ load_pc' = "loaded"
              /\ UNCHANGED load_error
         ELSE \* except Exception as e: print(...)
              /\ load_error' = "Error loading model"
              /\ load_pc' = "done"
              /\ UNCHANGED model
    /\ UNCHANGED <<training_stats, PREDICTION_COUNT, PREDICTION_ERRORS,
                   OOD_RATIO, FEATURE_MEAN_SHIFT, pc, request, features,
                   response, health, served, etl_vars>>

\* training_stats = {'temp': ..., 'humidity': ...}
load_model_stats ==
    /\ load_pc = "loaded"
    /\ training_stats' = ProductionStats
    /\ load_pc' = "done"
    /\ UNCHANGED <<model, load_error, PREDICTION_COUNT, PREDICTION_ERRORS,
                   OOD_RATIO, FEATURE_MEAN_SHIFT, pc, request, features,
                   response, health, served, etl_vars>>

\* mutant of ServerAccepting: requests served while load_model still runs
AcceptingDuringStartup == TRUE

\* requests are served once the startup handler has returned
ServerAccepting == load_pc = "done"

\* if model: (a fitted estimator is truthy, None is not)
ModelLoaded(m) == m # "None"

\* def health_check()
health_check(m) ==
    IF ModelLoaded(m)
    THEN [status |-> "healthy", model_loaded |-> TRUE]
    ELSE [status |-> "unhealthy", model_loaded |-> FALSE]

Health ==
    /\ ServerAccepting
    /\ health.calls < MaxHealth
    /\ health' = [status |-> health_check(model).status,
                  model_loaded |-> health_check(model).model_loaded,
                  calls |-> health.calls + 1]
    /\ UNCHANGED <<model, training_stats, load_pc, load_error,
                   PREDICTION_COUNT, PREDICTION_ERRORS, OOD_RATIO,
                   FEATURE_MEAN_SHIFT, pc, request, features, response,
                   served, etl_vars>>

----------------------------------------------------------------------------
\* predict, run by concurrent workers (a sync endpoint runs in the threadpool).

HTTPException(status_code, detail) == [status |-> status_code, detail |-> detail]

\* mutant of ErrorsOnException: the failure is not counted
ErrorsNotCounted(errors) == errors

\* except Exception as e: PREDICTION_ERRORS.inc()
ErrorsOnException(errors) == errors + 1

\* except Exception as e: ...; raise HTTPException(status_code=500, detail=str(e))
\* HTTPException is an Exception, so the handler's own 503 is caught here too.
except_Exception(e) == HTTPException(500, e)

\* PREDICTION_COUNT.inc(); with PREDICTION_LATENCY.time(): try:
predict_begin(w, req) ==
    /\ ServerAccepting
    /\ pc[w] = "idle"
    /\ PREDICTION_COUNT < MaxCalls
    /\ PREDICTION_COUNT' = PREDICTION_COUNT + 1
    /\ request' = [request EXCEPT ![w] = req]
    /\ features' = [features EXCEPT ![w] = NoRequest]
    /\ response' = [response EXCEPT ![w] = NoResponse]
    /\ pc' = [pc EXCEPT ![w] = "try"]
    /\ UNCHANGED <<model, training_stats, load_pc, load_error,
                   PREDICTION_ERRORS, OOD_RATIO, FEATURE_MEAN_SHIFT, health,
                   served, etl_vars>>

\* if not model: raise HTTPException(503); features = pd.DataFrame([request.dict()])
predict_check(w) ==
    /\ pc[w] = "try"
    /\ IF ~ModelLoaded(model)
       THEN /\ PREDICTION_ERRORS' = ErrorsOnException(PREDICTION_ERRORS)
            /\ response' = [response EXCEPT
                                ![w] = except_Exception("503: Model not loaded")]
            /\ served' = [served EXCEPT !.failed = @ + 1]
            /\ pc' = [pc EXCEPT ![w] = "idle"]
            /\ UNCHANGED features
       ELSE /\ features' = [features EXCEPT ![w] = request[w]]
            /\ pc' = [pc EXCEPT ![w] = "drift"]
            /\ UNCHANGED <<PREDICTION_ERRORS, response, served>>
    /\ UNCHANGED <<model, training_stats, load_pc, load_error,
                   PREDICTION_COUNT, OOD_RATIO, FEATURE_MEAN_SHIFT, request,
                   health, etl_vars>>

\* the drift loop and the OOD_RATIO gauge
predict_drift(w) ==
    /\ pc[w] = "drift"
    /\ FEATURE_MEAN_SHIFT' =
            ShiftAfter(training_stats, features[w], FEATURE_MEAN_SHIFT)
    /\ OOD_RATIO' = RatioAfter(training_stats, features[w], OOD_RATIO)
    /\ pc' = [pc EXCEPT ![w] = "infer"]
    /\ UNCHANGED <<model, training_stats, load_pc, load_error,
                   PREDICTION_COUNT, PREDICTION_ERRORS, request, features,
                   response, health, served, etl_vars>>

\* prediction = model.predict(features)[0]; return, or the except clause
predict_infer(w) ==
    /\ pc[w] = "infer"
    /\ \E ok \in BOOLEAN :
         IF ok
         THEN /\ response' = [response EXCEPT
                                 ![w] = [status |-> 200, detail |-> "predicted_temp"]]
              /\ served' = [served EXCEPT !.ok = @ + 1]
              /\ UNCHANGED PREDICTION_ERRORS
         ELSE /\ PREDICTION_ERRORS' = ErrorsOnException(PREDICTION_ERRORS)
              /\ response' = [response EXCEPT
                                 ![w] = except_Exception("model.predict failed")]
              /\ served' = [served EXCEPT !.failed = @ + 1]
    /\ pc' = [pc EXCEPT ![w] = "idle"]
    /\ UNCHANGED <<model, training_stats, load_pc, load_error,
                   PREDICTION_COUNT, OOD_RATIO, FEATURE_MEAN_SHIFT, request,
                   features, health, etl_vars>>

predict(w) ==
    \/ \E req \in Requests : predict_begin(w, req)
    \/ predict_check(w)
    \/ predict_drift(w)
    \/ predict_infer(w)

----------------------------------------------------------------------------
\* The service.

NoBatch == [cols |-> {}, rows |-> <<>>]
NoResult == [exit |-> 0, message |-> "", warnings |-> {}]

\* no pipeline run
EtlIdle ==
    /\ batch = NoBatch
    /\ stage = "none"
    /\ validate_result = NoResult
    /\ df_clean = <<>>

\* module level state of main.py after import
SvcInit ==
    /\ model = "None"
    /\ training_stats = EmptyStats
    /\ load_pc = "start"
    /\ load_error = ""
    /\ PREDICTION_COUNT = 0
    /\ PREDICTION_ERRORS = 0
    /\ OOD_RATIO = GaugeInit
    /\ FEATURE_MEAN_SHIFT = NoShift
    /\ pc = [w \in Workers |-> "idle"]
    /\ request = [w \in Workers |-> NoRequest]
    /\ features = [w \in Workers |-> NoRequest]
    /\ response = [w \in Workers |-> NoResponse]
    /\ health = NoHealth
    /\ served = [ok |-> 0, failed |-> 0]

Init == SvcInit /\ EtlIdle

Next ==
    \/ load_model_fetch
    \/ load_model_stats
    \/ Health
    \/ \E w \in Workers : predict(w)

Spec == Init /\ [][Next]_vars

----------------------------------------------------------------------------
\* The drift computation on its own: the service is Ready with a profile
\* drawn from Profiles and one worker holds a prepared request.

ProfileFeatures == {"temp", "humidity", "feels_like"}
ProfileStats ==
    {[mean |-> 20, std |-> 5], [mean |-> 20, std |-> 0], [mean |-> 60, std |-> 15]}

Profiles ==
    UNION {[S -> ProfileStats] : S \in SUBSET ProfileFeatures}

DriftInit ==
    /\ model = "Production"
    /\ training_stats \in Profiles
    /\ load_pc = "done"
    /\ load_error = ""
    /\ PREDICTION_COUNT = 1
    /\ PREDICTION_ERRORS = 0
    /\ OOD_RATIO = GaugeInit
    /\ FEATURE_MEAN_SHIFT = NoShift
    /\ \E req \in Requests :
         /\ request = [w \in Workers |-> IF w = "w1" THEN req ELSE NoRequest]
         /\ features = request
    /\ pc = [w \in Workers |-> IF w = "w1" THEN "drift" ELSE "idle"]
    /\ response = [w \in Workers |-> NoResponse]
    /\ health = NoHealth
    /\ served = [ok |-> 0, failed |-> 0]
    /\ EtlIdle

DriftNext == \E w \in Workers : predict_drift(w)

DriftSpec == DriftInit /\ [][DriftNext]_vars

----------------------------------------------------------------------------
\* The ETL pipeline: the latest raw CSV, validate_data, transform_data.
\*
\* A batch is [cols, rows]: the columns of the file and its records.  A record
\* carries the fields whose values the model varies; every other column of
\* the file holds a non-null value in every record.  Timestamps are hours:
\* dt_txt since Monday 2024-01-01 00:00, collection_time on the clock that
\* reads Now when validate_data runs.

\* a missing cell, NaN / NaT
NaN == -1

IsNull(v) == v = NaN

\* the record extract.py builds per forecast item
RawColumns ==
    {"dt", "dt_txt", "temp", "feels_like", "pressure", "humidity",
     "weather_main", "weather_description", "wind_speed", "wind_deg",
     "clouds_all", "collection_time"}

RowFields == {"dt_txt", "temp", "wind_speed", "wind_deg", "collection_time"}

\* value of a column the model does not vary
Filled(c) == IF c = "humidity" THEN 60 ELSE IF c = "pressure" THEN 1013 ELSE 1

Cell(b, i, c) == IF c \in RowFields THEN b.rows[i][c] ELSE Filled(c)

\* df[c].isnull().any()
HasNull(b, c) == \E i \in 1..Len(b.rows) : IsNull(Cell(b, i, c))

\* datetime.now() in validate_data
Now == 100

\* 86400 seconds
MaxAgeHours == 24

critical_cols == {"temp", "humidity", "pressure", "wind_speed"}
expected_cols == {"dt", "temp", "humidity", "pressure", "wind_speed", "collection_time"}

Exit(code, message, warnings) ==
    [exit |-> code, message |-> message, warnings |-> warnings]

SetMax(S) == CHOOSE x \in S : \A y \in S : y <= x

\* 3. Freshness check.  df['collection_time'].max() skips NaN in an all-NaN
\* (float) column and gives NaN, hence NaT and an age that compares False;
\* in a column of strings and NaN it compares the str values against the
\* float fill value and raises TypeError, which the except clause turns into
\* exit 1.
freshness_check(b, warnings) ==
    IF "collection_time" \notin b.cols
    THEN Exit(0, "Data validation passed successfully.", warnings)
    ELSE LET times == {Cell(b, i, "collection_time") : i \in 1..Len(b.rows)}
             stamps == {t \in times : ~IsNull(t)}
         IN  IF stamps = {}
             THEN Exit(0, "Data validation passed successfully.", warnings)
             ELSE IF stamps # times
             THEN Exit(1, "Validation failed with error: TypeError", warnings)
             ELSE IF Now - SetMax(stamps) > MaxAgeHours
             THEN Exit(0, "Data validation passed successfully.",
                       warnings \cup {"Data is too old"})
             ELSE Exit(0, "Data validation passed successfully.", warnings)

\* 2. Schema Validation
schema_check(b, warnings) ==
    IF expected_cols \ b.cols # {}
    THEN Exit(1, "Missing expected columns", warnings)
    ELSE freshness_check(b, warnings)

\* def validate_data(), from the read of the latest file on.
\* 1. Check for null values: df[critical_cols] raises KeyError when a critical
\* column is not in the file, caught by except Exception.
validate_data(b) ==
    IF \E c \in b.cols : HasNull(b, c)
    THEN IF ~(critical_cols \subseteq b.cols)
         THEN Exit(1, "Validation failed with error: KeyError", {"Null values found"})
         ELSE IF \E c \in critical_cols : HasNull(b, c)
         THEN Exit(1, "Critical columns have null values. Validation Failed.",
                   {"Null values found"})
         ELSE schema_check(b, {"Null values found"})
    ELSE schema_check(b, {})

----------------------------------------------------------------------------
\* transform_data.

\* df.sort_values('dt_txt'): position of record i in ascending dt_txt order
Rank(rows, i) ==
    Cardinality({j \in 1..Len(rows) : rows[j].dt_txt < rows[i].dt_txt}) + 1

sort_values(rows) ==
    [k \in 1..Len(rows) |->
        rows[CHOOSE i \in 1..Len(rows) : Rank(rows, i) = k]]

\* df['dt_txt'].dt.hour / .dt.dayofweek (Monday = 0) / .dt.month
hour(t) == t % 24
day_of_week(t) == (t \div 24) % 7
month(t) == 1 + ((t \div 24) \div 31)

\* mutant of shift: the edge filled with the row's own value
shift_edge_filled(col, i, periods) ==
    IF i - periods >= 1 /\ i - periods <= Len(col) THEN col[i - periods] ELSE col[i]

\* Series.shift(periods): the value periods rows earlier, NaN off the edge
shift(col, i, periods) ==
    IF i - periods >= 1 /\ i - periods <= Len(col) THEN col[i - periods] ELSE NaN

\* rolling(window=3): a value once the window holds 3 non-NaN observations
window_full(col, i) ==
    /\ i >= 3
    /\ \A j \in (i - 2)..i : ~IsNull(col[j])

\* .rolling(window=3).mean()
rolling_mean_3(col, i) ==
    IF window_full(col, i)
    THEN Div(col[i - 2] + col[i - 1] + col[i], 3)
    ELSE Div(0, 0)

\* .rolling(window=3).std(): the sample standard deviation (ddof = 1), kept as
\* its square, (3 * sum(x^2) - sum(x)^2) / 6
rolling_std_3(col, i) ==
    IF window_full(col, i)
    THEN LET sum == col[i - 2] + col[i - 1] + col[i]
             squares == col[i - 2] * col[i - 2] + col[i - 1] * col[i - 1]
                        + col[i] * col[i]
         IN  Div(3 * squares - sum * sum, 6)
    ELSE Div(0, 0)

\* the columns transform_data reads
transform_cols == {"dt_txt", "collection_time", "temp", "humidity"}

\* the rows of df after feature engineering, before dropna
engineered(b) ==
    LET df == sort_values(b.rows)
        n == Len(df)
        temp == [i \in 1..n |-> df[i].temp]
        humidity == [i \in 1..n |-> Filled("humidity")]
    IN  [i \in 1..n |->
            [dt_txt |-> df[i].dt_txt,
             temp |-> df[i].temp,
             wind_speed |-> df[i].wind_speed,
             wind_deg |-> df[i].wind_deg,
             collection_time |-> df[i].collection_time,
             hour |-> hour(df[i].dt_txt),
             day_of_week |-> day_of_week(df[i].dt_txt),
             month |-> month(df[i].dt_txt),
             temp_lag_1 |-> shift(temp, i, 1),
             humidity_lag_1 |-> shift(humidity, i, 1),
             temp_rolling_mean_3 |-> rolling_mean_3(temp, i),
             temp_rolling_std_3 |-> rolling_std_3(temp, i),
             target_temp |-> shift(temp, i, -1)]]

QuotientFields == {"temp_rolling_mean_3", "temp_rolling_std_3"}
DerivedFields ==
    {"hour", "day_of_week", "month", "temp_lag_1", "humidity_lag_1",
     "target_temp"} \cup QuotientFields

\* a row df.dropna() keeps: no NaN in any column of the frame
complete(b, row) ==
    /\ \A c \in (RowFields \cap b.cols) \cup (DerivedFields \ QuotientFields) :
          ~IsNull(row[c])
    /\ \A c \in QuotientFields : ~IsNaN(row[c])

\* def transform_data(), from the read of the latest file to df_clean.to_csv;
\* a column it reads that the file lacks raises KeyError: exit 1, nothing saved
transform_data(b) ==
    IF ~(transform_cols \subseteq b.cols)
    THEN [exit |-> 1, rows |-> <<>>]
    ELSE LET keep(row) == complete(b, row)
         IN  [exit |-> 0, rows |-> SelectSeq(engineered(b), keep)]

----------------------------------------------------------------------------
\* The DAG: extract_task >> validate_task >> transform_task.  A task that
\* exits non-zero fails and its downstream tasks do not run.

\* records in a transform batch, and in a validation batch
MaxRows == 5
MaxValRows == 2

\* input order of the records: the sorted order rotated by k
Rotation(n, k, i) == ((i + k - 1) % n) + 1

RowsOf(n, k, Temps, Speeds, Degs, Times) ==
    {[i \in 1..n |->
        [dt_txt |-> 3 * Rotation(n, k, i),
         temp |-> r[i].temp,
         wind_speed |-> r[i].wind_speed,
         wind_deg |-> r[i].wind_deg,
         collection_time |-> r[i].collection_time]]
     : r \in [1..n -> [temp : Temps, wind_speed : Speeds, wind_deg : Degs,
                       collection_time : Times]]}

\* files with a column missing
MissingOptions == {{}, {"pressure"}, {"dt"}, {"dt_txt"}, {"collection_time"}}

\* batches that exercise validate_data: nulls in a critical, a non-critical
\* and the collection_time column, fresh (1 h) and stale (25 h) captures
ValidateBatches ==
    {[cols |-> RawColumns \ m, rows |-> rows] :
        m \in MissingOptions,
        rows \in UNION {RowsOf(n, k, {18}, {5, NaN}, {270, NaN}, {75, 99, NaN})
                        : n \in 1..MaxValRows, k \in 0..(MaxValRows - 1)}}

\* batches that exercise transform_data: longer, unsorted, with nulls in a
\* non-critical column
TransformBatches ==
    {[cols |-> RawColumns, rows |-> rows] :
        rows \in UNION {RowsOf(n, k, {18, 22}, {5}, {270, NaN}, {99})
                        : n \in 1..MaxRows, k \in 0..(MaxRows - 1)}}

validate_task ==
    /\ stage = "extracted"
    /\ validate_result' = validate_data(batch)
    /\ stage' = IF validate_data(batch).exit = 0 THEN "validated" ELSE "failed"
    /\ UNCHANGED <<batch, df_clean, svc_vars>>

transform_task ==
    /\ stage = "validated"
    /\ df_clean' = transform_data(batch).rows
    /\ stage' = IF transform_data(batch).exit = 0
                THEN "transformed" ELSE "transform_failed"
    /\ UNCHANGED <<batch, validate_result, svc_vars>>

PipelineInit ==
    /\ SvcInit
    /\ batch \in ValidateBatches \cup TransformBatches
    /\ stage = "extracted"
    /\ validate_result = NoResult
    /\ df_clean = <<>>

PipelineNext == validate_task \/ transform_task

PipelineSpec == PipelineInit /\ [][PipelineNext]_vars

----------------------------------------------------------------------------
\* Properties of the inference service (Spec).

\* A worker whose last predict call has completed.
Completed(w) == pc[w] = "idle" /\ response[w] # NoResponse

\* C1: in state Unloaded every predict call fails with ModelUnavailable (the
\* handler's 503, not the generic 500), prepares no features, touches no
\* gauge, and health still reports model_loaded = false / unhealthy.
C1_UnloadedPredictIsModelUnavailable ==
    \A w \in Workers :
        (~ModelLoaded(model) /\ Completed(w)) =>
            /\ response[w].status = 503
            /\ features[w] = NoRequest
            /\ FEATURE_MEAN_SHIFT = NoShift
            /\ OOD_RATIO = GaugeInit
            /\ health_check(model) = [status |-> "unhealthy", model_loaded |-> FALSE]

\* C2: the service becomes Ready only by a successful load; a failed fetch
\* leaves model and training_stats at their initial values and load_model
\* returns normally; every health answer has model_loaded = (state is Ready).
C2_LoadFailureStaysUnloaded ==
    /\ ModelLoaded(model) => load_error = ""
    /\ load_error # "" =>
          /\ model = "None"
          /\ training_stats = EmptyStats
          /\ load_pc = "done"
    /\ health.calls > 0 =>
          /\ health.model_loaded = (model = "Production")
          /\ health.status = IF model = "Production" THEN "healthy" ELSE "unhealthy"

\* C2 witness: the fetch failed and health was answered afterwards
C2_Witness ==
    /\ load_error # ""
    /\ health.calls > 0
    /\ health.model_loaded = FALSE

\* C3: every predict call increments the request counter once; the error
\* counter counts exactly the calls that failed, so a successful call whose
\* features are all out-of-distribution leaves it unchanged.
C3_ErrorsCountFailedCalls ==
    /\ PREDICTION_COUNT =
          served.ok + served.failed + Cardinality({w \in Workers : pc[w] # "idle"})
    /\ PREDICTION_ERRORS = served.failed
    /\ PREDICTION_ERRORS <= PREDICTION_COUNT
    /\ \A w \in Workers :
          Completed(w) => (response[w].status = 200 \/ served.failed > 0)

\* C3 witness: one call, all scored features OOD (ratio 1), served with 200,
\* and the error counter still 0
C3_Witness ==
    \E w \in Workers :
        /\ Completed(w)
        /\ response[w].status = 200
        /\ features[w]["temp"] = 4 /\ features[w]["humidity"] = 106
        /\ OOD_RATIO = [num |-> 2, den |-> 2]
        /\ PREDICTION_COUNT = 1
        /\ PREDICTION_ERRORS = 0

C10_NoPredictBeforeLoadCompletes ==
    /\ [](\A w \in Workers :
            pc[w] \in {"drift", "infer"} =>
                /\ load_pc = "done"
                /\ DOMAIN training_stats # {})
    /\ [][(\E w \in Workers : pc'[w] # pc[w]) =>
            (model' = model /\ training_stats' = training_stats)]_vars

\* C10 witness: a predict call past the model check, the profile installed
C10_Witness ==
    \E w \in Workers :
        /\ pc[w] = "drift"
        /\ model = "Production"
        /\ training_stats = ProductionStats

----------------------------------------------------------------------------
\* Properties of the drift computation (DriftSpec).

\* The worker finished the drift loop on features[w].
Drifted(w) == pc[w] = "infer"

\* profile features with a defined (non-zero) std that the request carries
Monitored(stats, feats) ==
    {col \in DOMAIN stats : col \in DOMAIN feats /\ stats[col].std # 0}

\* monitored features whose |value - mean| / std exceeds 3
MonitoredOOD(stats, feats) ==
    {col \in Monitored(stats, feats) :
        Abs(feats[col] - stats[col].mean) > 3 * stats[col].std}

HasSentinel(stats) == \E col \in DOMAIN stats : stats[col].std = 0

----------------------------------------------------------------------------
\* Properties of the ETL pipeline (PipelineSpec).

Validated == stage # "extracted"

CriticalNull(b) == \E c \in critical_cols \cap b.cols : HasNull(b, c)
AnyNull(b) == \E c \in b.cols : HasNull(b, c)

\* record i of the file has a value in every column
NullFree(b, i) == \A c \in RowFields \cap b.cols : ~IsNull(b.rows[i][c])

\* no cell of a saved row is missing
RowComplete(row) ==
    /\ \A c \in (DOMAIN row) \ QuotientFields : ~IsNull(row[c])
    /\ \A c \in QuotientFields : ~IsNaN(row[c])

InnerComplete(b) ==
    {i \in 1..Len(b.rows) :
        /\ Rank(b.rows, i) >= 3
        /\ Rank(b.rows, i) <= Len(b.rows) - 1
        /\ NullFree(b, i)}

C5_ValidatorClassification ==
    Validated =>
        /\ ~(expected_cols \subseteq batch.cols) =>
              /\ validate_result.exit = 1
              /\ validate_result.message = "Missing expected columns"
        /\ (expected_cols \subseteq batch.cols /\ CriticalNull(batch)) =>
              /\ validate_result.exit = 1
              /\ validate_result.message =
                    "Critical columns have null values. Validation Failed."
        /\ (expected_cols \subseteq batch.cols /\ ~CriticalNull(batch)
              /\ AnyNull(batch)) =>
              /\ validate_result.exit = 0
              /\ "Null values found" \in validate_result.warnings

\* C6: a batch that satisfies the structural and the critical-null check
\* passes validation whatever its collection_time values are, stale or null.
C6_FreshnessNeverFails ==
    (Validated /\ expected_cols \subseteq batch.cols /\ ~CriticalNull(batch)) =>
        validate_result.exit = 0

====
